---- MODULE Spec2Model ----
(***************************************************************************)
(* Model of the tax-authority submission client of mpepo_kitchen_pos       *)
(* (src/student_b/tax_client.py): the schema validator, the single-attempt *)
(* executor submit_invoice and the retry loop submit_invoice_with_retry.   *)
(*                                                                         *)
(* Python values are tagged records, so that a document whose component    *)
(* has the wrong type (None, a number, a string, a list) is a value of the *)
(* model and the operators "in", [] and len() behave on it as in Python,   *)
(* TypeError included.  Outcome dicts live in a heap and are referred to   *)
(* by address, because the retry loop appends the very dict it later       *)
(* returns to the list it stores inside it.                                *)
(*                                                                         *)
(* Three specifications share the module.  Spec and FairSpec are the       *)
(* client as its callers drive it.  ValidatorSpec is a caller that holds   *)
(* one document and calls validate_invoice_schema on it between other      *)
(* operations of the client.  ProductSpec is the product API of            *)
(* src/product_module.py and its table products_db.                        *)
(***************************************************************************)
EXTENDS Integers, Sequences, FiniteSets, TLC

VARIABLES
    pc,            \* "idle" | "for" | "sleeping" | "returned" | "raised"
    mode,          \* "none" | "single" | "retry": the entry point in progress
    invoice_data,  \* the document passed to the entry point
    max_retries,   \* the max_retries argument of submit_invoice_with_retry
    attempt,       \* the loop variable of "for attempt in range(max_retries)"
    attempts,      \* the list "attempts": addresses of outcome dicts in heap
    heap,          \* the outcome dicts created during the call, by address
    returned,      \* address of the dict handed to the caller, 0 if none
    posts,         \* number of session.post calls issued during the call
    sleeps,        \* the arguments of the time.sleep calls made, in order
    clock,         \* seconds slept since the call started
    wait_time,     \* the local wait_time while the loop is sleeping
    calls,         \* number of submit_invoice invocations during the call
    transports,    \* what the transport did on each post of the call, in order
    document,      \* the document object a caller of the validator holds
    verdicts,      \* what validate_invoice_schema(document) returned, in order,
                   \* each with the pc of the client at the time of the call
    products_db,   \* the table products_db: product id -> Product
    request,       \* the last request the product API served, and its answer
    next_id,       \* number of uuid4 values drawn so far
    utc_now        \* the clock get_iso_now reads

\* The state of the submission client and of one call of it.
client_vars == <<pc, mode, invoice_data, max_retries, attempt, attempts, heap,
                 returned, posts, sleeps, clock, wait_time, calls, transports>>

\* What a caller of validate_invoice_schema holds.
validator_vars == <<document, verdicts>>

\* The state of the product API.
product_vars == <<products_db, request, next_id, utc_now>>

vars == <<client_vars, validator_vars, product_vars>>

-----------------------------------------------------------------------------
(* Bounds of the model.                                                    *)

\* Largest max_retries argument the model passes.
MaxRetriesBound == 3

\* Smallest max_retries argument the model passes is -MinRetriesBelow.
MinRetriesBelow == 1

\* Number of components in which a document may differ from the sample one.
MaxDeviations == 2

-----------------------------------------------------------------------------
(* Python values.                                                          *)

PyNone == [t |-> "none"]
PyInt(n) == [t |-> "int", v |-> n]
PyStr(s) == [t |-> "str", v |-> s]
PyList(s) == [t |-> "list", v |-> s]
PyDict(f) == [t |-> "dict", v |-> f]

EmptyMap == [k \in {} |-> PyNone]

\* Python's truth value of an object ("not x" is its negation).
Truthy(x) ==
    CASE x.t = "none" -> FALSE
      [] x.t = "int"  -> x.v # 0
      [] x.t = "str"  -> x.v # ""
      [] x.t = "list" -> x.v # <<>>
      [] x.t = "dict" -> DOMAIN x.v # {}

\* s occurs in w as a contiguous substring (str.__contains__).
IsSubstring(s, w) ==
    \E i \in 1..(Len(w) - Len(s) + 1) : SubSeq(w, i, i + Len(s) - 1) = s

\* w.startswith(p)
StartsWith(w, p) == Len(w) >= Len(p) /\ SubSeq(w, 1, Len(p)) = p

\* "key in x" is defined (no TypeError) for strings, lists and dicts.
SupportsIn(x) == x.t \in {"str", "list", "dict"}

\* "key in x" for a str key, where SupportsIn(x).
In(key, x) ==
    CASE x.t = "str"  -> IsSubstring(key, x.v)
      [] x.t = "list" -> \E i \in 1..Len(x.v) : x.v[i] = PyStr(key)
      [] x.t = "dict" -> key \in DOMAIN x.v

\* x[key] for a str key is defined only on a dict that has the key: a str or
\* a list indexed by a str raises TypeError.
SupportsGetItem(x, key) == x.t = "dict" /\ key \in DOMAIN x.v

\* len(x) is defined for strings, lists and dicts.
SupportsLen(x) == x.t \in {"str", "list", "dict"}

\* list(enumerate(x)) without the indices: the elements of a list, the
\* characters of a str.  (A dict iterates over its keys; the model's
\* documents hold no dict where a sequence is iterated.)
Elements(x) ==
    CASE x.t = "list" -> x.v
      [] x.t = "str"  -> [i \in 1..Len(x.v) |-> PyStr(SubSeq(x.v, i, i))]

\* dict.get(key, default) on a dict.
DictGet(d, key, default) == IF key \in DOMAIN d.v THEN d.v[key] ELSE default

-----------------------------------------------------------------------------
(* validate_invoice_schema                                                 *)

required_fields ==
    <<"invoice_id", "business_info", "transaction_date", "items", "summary">>

required_item_fields == <<"description", "quantity", "unit_price", "tax_rate">>

required_summary_fields == <<"subtotal", "tax_amount", "total_amount", "currency">>

\* The three ways validate_invoice_schema ends: "return True, msg",
\* "return False, msg", or a TypeError raised by "in", [] or len() on a
\* component that is not a container.
ValidationPassed == [raised |-> FALSE, valid |-> TRUE, message |-> "Validation successful"]
ValidationFailed(error_msg) == [raised |-> FALSE, valid |-> FALSE, message |-> error_msg]
ValidationRaised == [raised |-> TRUE, valid |-> FALSE, message |-> "TypeError"]

\* Index of the first field of the list "fields" that is not in x, 0 if all
\* are (x supports "in").
FirstMissing(fields, x) ==
    IF \A j \in 1..Len(fields) : In(fields[j], x)
    THEN 0
    ELSE CHOOSE j \in 1..Len(fields) :
            /\ ~In(fields[j], x)
            /\ \A k \in 1..(j - 1) : In(fields[k], x)

\* Lines 66-69: "if not items or len(items) == 0".
ItemsCheck(items) ==
    IF ~Truthy(items) THEN ValidationFailed("Invoice must contain at least one item")
    ELSE IF ~SupportsLen(items) THEN ValidationRaised
    ELSE ValidationPassed

\* Lines 71-77: the nested loops over the items and the required item
\* fields, from item i (1-based here, reported 0-based) and field j on.
RECURSIVE ItemFieldsCheck(_, _, _)
ItemFieldsCheck(elems, i, j) ==
    IF i > Len(elems) THEN ValidationPassed
    ELSE IF j > Len(required_item_fields) THEN ItemFieldsCheck(elems, i + 1, 1)
    ELSE IF ~SupportsIn(elems[i]) THEN ValidationRaised
    ELSE IF ~In(required_item_fields[j], elems[i])
         THEN ValidationFailed("Item " \o ToString(i - 1)
                               \o " missing required field: " \o required_item_fields[j])
    ELSE ItemFieldsCheck(elems, i, j + 1)

\* Lines 79-85.
SummaryCheck(summary) ==
    IF ~SupportsIn(summary) THEN ValidationRaised
    ELSE LET j == FirstMissing(required_summary_fields, summary)
         IN  IF j # 0
             THEN ValidationFailed("Summary missing required field: "
                                   \o required_summary_fields[j])
             ELSE ValidationPassed

\* Lines 55-63, for key = "tin" and key = "business_name":
\* if key not in business_info or not business_info[key].
BusinessInfoCheck(business_info, key, error_msg) ==
    IF ~SupportsIn(business_info) THEN ValidationRaised
    ELSE IF ~In(key, business_info) THEN ValidationFailed(error_msg)
    ELSE IF ~SupportsGetItem(business_info, key) THEN ValidationRaised
    ELSE IF ~Truthy(business_info.v[key]) THEN ValidationFailed(error_msg)
    ELSE ValidationPassed

\* The checks run in source order; the first that does not pass decides.
validate_invoice_schema(doc) ==
    LET top == FirstMissing(required_fields, doc)
    IN  IF top # 0
        THEN ValidationFailed("Missing required field: " \o required_fields[top])
        ELSE
        LET tin   == BusinessInfoCheck(doc.v["business_info"], "tin",
                                       "Missing TIN in business_info")
            name  == BusinessInfoCheck(doc.v["business_info"], "business_name",
                                       "Missing business_name in business_info")
            nonempty == ItemsCheck(doc.v["items"])
            fields == ItemFieldsCheck(Elements(doc.v["items"]), 1, 1)
            summary == SummaryCheck(doc.v["summary"])
        IN  IF tin # ValidationPassed THEN tin
            ELSE IF name # ValidationPassed THEN name
            ELSE IF nonempty # ValidationPassed THEN nonempty
            ELSE IF fields # ValidationPassed THEN fields
            ELSE summary

-----------------------------------------------------------------------------
(* The transport: what session.post(...) does on one call.                 *)

\* A parsed JSON object; its members are strings and kept as such.
JsonObject(f) == [t |-> "dict", v |-> f]

\* response.json() raises json.JSONDecodeError on this body (the exception
\* of requests derives from it unless simplejson is installed).
Unparsable == [parses |-> FALSE]
\* response.json() returns value.
Parsed(value) == [parses |-> TRUE, value |-> value]

\* headers maps the header names present to their values.
Response(status_code, headers, body) ==
    [kind |-> "Response", status_code |-> status_code, headers |-> headers, body |-> body]

RaisesTimeout == [kind |-> "Timeout"]
RaisesConnectionError == [kind |-> "ConnectionError"]
\* Any exception that is neither of the two, with its str().
RaisesOther(text) == [kind |-> "Exception", text |-> text]

NoHeaders == [k \in {} |-> ""]
ContentType(value) == [k \in {"content-type"} |-> value]

\* Parsed bodies.
EmptyObject == Parsed(JsonObject([k \in {} |-> ""]))
ApprovedObject == Parsed(JsonObject([tax_authority_id |-> "TA-1", status |-> "approved"]))
PendingObject == Parsed(JsonObject([status |-> "pending", message |-> "queued"]))
ErrorObject == Parsed(JsonObject([error |-> "bad tin"]))
EmptyArray == Parsed(PyList(<<>>))

\* The behaviours of the transport the model draws from: the three kinds of
\* exception, and responses that vary the status code, the content-type
\* header and the body against each other.
TransportResults ==
    { RaisesTimeout, RaisesConnectionError, RaisesOther("Exceeded 30 redirects."),
      Response(200, ContentType("text/html"), ApprovedObject),
      Response(500, NoHeaders, Unparsable),
      Response(200, ContentType("application/json"), Unparsable),
      Response(500, ContentType("application/json"), Unparsable),
      Response(200, ContentType("application/json"), EmptyObject),
      Response(200, ContentType("application/json; charset=utf-8"), ApprovedObject),
      Response(200, ContentType("Application/JSON"), ApprovedObject),
      Response(200, ContentType("application/json"), PendingObject),
      Response(200, ContentType("application/json"), EmptyArray),
      Response(400, ContentType("application/json"), ErrorObject),
      Response(400, ContentType("application/json"), EmptyObject),
      Response(400, ContentType("application/json"), EmptyArray),
      Response(201, ContentType("application/json"), ApprovedObject),
      Response(500, ContentType("application/json; charset=utf-8"), EmptyObject) }

-----------------------------------------------------------------------------
(* submit_invoice                                                          *)

FAILED == "failed"

\* The members of the enum SubmissionStatus.
SubmissionStatus == {"success", "failed", "pending", "under_review"}

\* The dict every failure branch returns.
FailureOutcome(error, message) ==
    [success |-> FALSE, status |-> FAILED, error |-> error, message |-> message]

\* Faulty variant of IsJsonResponse: equality for startswith.
IsJsonResponse_exact(response) ==
    "content-type" \in DOMAIN response.headers
    /\ response.headers["content-type"] = "application/json"

\* Line 116: response.headers.get('content-type', '').startswith('application/json')
IsJsonResponse(response) ==
    StartsWith(IF "content-type" \in DOMAIN response.headers
               THEN response.headers["content-type"] ELSE "",
               "application/json")

\* Faulty variant of SuccessOutcome: an error member on a success.
SuccessOutcome_with_error(result, now) ==
    [success |-> TRUE,
     status |-> DictGet(result, "status", "approved"),
     error |-> "none",
     data |-> result,
     tax_authority_id |-> DictGet(result, "tax_authority_id", "Unknown"),
     submitted_at |-> now,
     message |-> DictGet(result, "message",
                         "Invoice submitted successfully to tax authority")]

\* Lines 134-141: the dict returned for status 200, result being a dict.
SuccessOutcome(result, now) ==
    [success |-> TRUE,
     status |-> DictGet(result, "status", "approved"),
     data |-> result,
     tax_authority_id |-> DictGet(result, "tax_authority_id", "Unknown"),
     submitted_at |-> now,
     message |-> DictGet(result, "message",
                         "Invoice submitted successfully to tax authority")]

\* Lines 189-196: the catch-all handler, e being an exception with str() text.
UnexpectedOutcome(text) ==
    FailureOutcome("unexpected_error", "Unexpected error occurred: " \o text)

\* Lines 128-160: the branch on response.status_code once result is parsed.
\* result.get on a value that is no dict raises AttributeError, which the
\* catch-all handler turns into unexpected_error.
StatusOutcome(status_code, result, now) ==
    IF status_code = 200
    THEN IF result.t = "dict"
         THEN SuccessOutcome(result, now)
         ELSE UnexpectedOutcome("'" \o result.t \o "' object has no attribute 'get'")
    ELSE IF status_code = 400
    THEN IF result.t = "dict"
         THEN FailureOutcome("validation_error",
                             "Tax authority validation failed: "
                             \o DictGet(result, "error", "Validation error"))
         ELSE UnexpectedOutcome("'" \o result.t \o "' object has no attribute 'get'")
    ELSE FailureOutcome("http_error_" \o ToString(status_code),
                        "Tax authority returned error: " \o ToString(status_code))

\* Lines 113-126 and 180-187: the response is classified by its content type
\* first, then its body is parsed, then its status code is looked at.
ResponseOutcome(response, now) ==
    IF ~IsJsonResponse(response)
    THEN FailureOutcome("invalid_response",
                        "Server returned non-JSON response: "
                        \o ToString(response.status_code))
    ELSE IF ~response.body.parses
    THEN FailureOutcome("invalid_json", "Tax authority returned invalid JSON response")
    ELSE StatusOutcome(response.status_code, response.body.value, now)

\* Lines 106-196: the try block, given what the transport did.
PostOutcome(transport, now) ==
    CASE transport.kind = "Response" -> ResponseOutcome(transport, now)
      [] transport.kind = "Timeout" ->
            FailureOutcome("timeout", "Tax authority server timeout")
      [] transport.kind = "ConnectionError" ->
            FailureOutcome("connection_error", "Cannot connect to tax authority service")
      [] transport.kind = "Exception" -> UnexpectedOutcome(transport.text)

\* Does submit_invoice reach session.post on this document?  Validation is
\* outside the try block, so an exception it raises leaves submit_invoice.
ReachesPost(doc) == validate_invoice_schema(doc) = ValidationPassed

\* submit_invoice(invoice_data) when the transport, if asked, does
\* "transport": either it raises, or it returns the dict "outcome".
submit_invoice(doc, transport, now) ==
    LET checked == validate_invoice_schema(doc)
    IN  IF checked.raised
        THEN [raised |-> TRUE]
        ELSE IF ~checked.valid
        THEN [raised |-> FALSE,
              outcome |-> FailureOutcome("invalid_schema", checked.message)]
        ELSE [raised |-> FALSE, outcome |-> PostOutcome(transport, now)]

-----------------------------------------------------------------------------
(* The documents callers pass in.  A component is absent, of the shape the *)
(* schema asks for (complete or lacking members), or of another type.      *)

Absent == [t |-> "absent"]

GoodItem ==
    PyDict([description |-> PyStr("Chicken Meal with Fries"), quantity |-> PyInt(2),
            unit_price |-> PyInt(15), tax_rate |-> PyInt(16)])

\* An item lacking quantity and tax_rate.
ShortItem == PyDict([description |-> PyStr("Chapati"), unit_price |-> PyInt(40)])

GoodBusinessInfo ==
    PyDict([tin |-> PyStr("BUS-123456789"), business_name |-> PyStr("Mpepo Kitchen")])

GoodSummary ==
    PyDict([subtotal |-> PyInt(30), tax_amount |-> PyInt(5), total_amount |-> PyInt(35),
            currency |-> PyStr("KES")])

InvoiceIdValues == {Absent, PyStr("MPEPO-INV-2025-00123")}

TransactionDateValues == {Absent, PyStr("2025-09-23T14:30:00Z")}

BusinessInfoValues ==
    { Absent, GoodBusinessInfo,
      PyDict(EmptyMap),
      PyDict([business_name |-> PyStr("Mpepo Kitchen")]),
      PyDict([tin |-> PyStr(""), business_name |-> PyStr("Mpepo Kitchen")]),
      PyDict([tin |-> PyStr("BUS-123456789")]),
      PyDict([tin |-> PyStr("BUS-123456789"), business_name |-> PyStr("")]),
      PyNone, PyInt(5), PyStr("tin"),
      PyList(<<>>), PyList(<<PyStr("tin"), PyStr("business_name")>>) }

ItemsValues ==
    { Absent,
      PyList(<<GoodItem>>),
      PyList(<<>>),
      PyList(<<GoodItem, ShortItem>>),
      PyList(<<PyDict(EmptyMap), ShortItem>>),
      PyList(<<GoodItem, PyNone>>), PyList(<<PyInt(5)>>),
      PyNone, PyInt(5), PyStr("ab") }

SummaryValues ==
    { Absent, GoodSummary,
      PyDict(EmptyMap),
      PyDict([subtotal |-> PyInt(30), tax_amount |-> PyInt(5), total_amount |-> PyInt(35)]),
      PyDict([tax_amount |-> PyInt(5), currency |-> PyStr("KES")]),
      PyNone, PyStr("subtotal"),
      PyList(<<PyStr("subtotal"), PyStr("tax_amount"), PyStr("total_amount"),
               PyStr("currency")>>) }

\* The dict with the given components, the absent ones left out.
MakeInvoice(invoice_id, business_info, transaction_date, items, summary) ==
    LET all == [invoice_id |-> invoice_id, business_info |-> business_info,
                transaction_date |-> transaction_date, items |-> items,
                summary |-> summary]
    IN  PyDict([k \in {f \in DOMAIN all : all[f] # Absent} |-> all[k]])

\* The components of the sample invoice of the module's self-test (lines
\* 251-279), without the members the validator never reads.
SampleComponents ==
    [invoice_id |-> PyStr("MPEPO-INV-2025-00123"), business_info |-> GoodBusinessInfo,
     transaction_date |-> PyStr("2025-09-23T14:30:00Z"), items |-> PyList(<<GoodItem>>),
     summary |-> GoodSummary]

\* The documents that differ from the sample in at most MaxDeviations
\* components.
Invoices ==
    LET all == [invoice_id : InvoiceIdValues, business_info : BusinessInfoValues,
                transaction_date : TransactionDateValues, items : ItemsValues,
                summary : SummaryValues]
        near == {c \in all :
                    Cardinality({f \in DOMAIN c : c[f] # SampleComponents[f]})
                        <= MaxDeviations}
    IN  { MakeInvoice(c.invoice_id, c.business_info, c.transaction_date, c.items,
                      c.summary) : c \in near }

sample_invoice ==
    MakeInvoice(SampleComponents.invoice_id, SampleComponents.business_info,
                SampleComponents.transaction_date, SampleComponents.items,
                SampleComponents.summary)

\* What the transport can be seen to do on a call with this document: it is
\* asked only if the document passes validation, so for any other document
\* one behaviour stands for all.
TransportsFor(doc) == IF ReachesPost(doc) THEN TransportResults ELSE {RaisesTimeout}

-----------------------------------------------------------------------------
(* submit_invoice_with_retry                                               *)

\* Default of the max_retries parameter.
DefaultMaxRetries == 3

\* The max_retries arguments callers pass.
RetryArguments == ((0 - MinRetriesBelow)..MaxRetriesBound) \cup {DefaultMaxRetries}

\* Faulty variants of non_retryable_errors: invalid_json forgotten, and
\* invalid_response added.
non_retryable_errors_short == {"invalid_schema", "validation_error"}
non_retryable_errors_wide ==
    {"invalid_schema", "validation_error", "invalid_json", "invalid_response"}

non_retryable_errors == {"invalid_schema", "validation_error", "invalid_json"}

\* d[key] = value on a dict.
SetItem(d, key, value) == (key :> value) @@ d

\* Faulty variant of ReturnsResult: the test of result["success"] left out.
ReturnsResult_no_success(result) ==
    ~result.success /\ result.error \in non_retryable_errors

\* Lines 214 and 222: the two tests that end the loop with "return result".
ReturnsResult(result) == result.success \/ result.error \in non_retryable_errors

\* Line 228: the guard of the backoff sleep.
SleepsAfter(attempt_index, retries) == attempt_index < retries - 1

\* Faulty variant of BackoffDelay: 2 * attempt for 2 ** attempt.
BackoffDelay_linear(attempt_index) == 2 * attempt_index

\* Line 229: wait_time = 2 ** attempt
BackoffDelay(attempt_index) == 2 ^ attempt_index

\* Faulty variant of WithHistory: total_attempts from the 0-based index.
WithHistory_zero_based(result, attempt_index, all) ==
    (("total_attempts" :> attempt_index) @@ ("all_attempts" :> all)) @@ result

\* Lines 216-217 and 224-225: result["total_attempts"], result["all_attempts"].
\* The list is stored by reference; it is not appended to afterwards, so the
\* addresses it holds at this point are its content for good.
WithHistory(result, attempt_index, all) ==
    SetItem(SetItem(result, "total_attempts", attempt_index + 1), "all_attempts", all)

\* Faulty variant of ExhaustedOutcome: the index of the last attempt for
\* the number of attempts.
ExhaustedOutcome_last_index(retries, all) ==
    [success |-> FALSE, status |-> "failed", error |-> "all_retries_failed",
     total_attempts |-> retries - 1, all_attempts |-> all,
     message |-> "All " \o ToString(retries) \o " retry attempts failed"]

\* Lines 234-241: the dict built after the loop.
ExhaustedOutcome(retries, all) ==
    [success |-> FALSE, status |-> FAILED, error |-> "all_retries_failed",
     total_attempts |-> retries, all_attempts |-> all,
     message |-> "All " \o ToString(retries) \o " retry attempts failed"]

-----------------------------------------------------------------------------
(* The product API (src/product_module.py): pydantic models and requests.  *)
(* A float price is an integer number of shillings here; a value of the    *)
(* wrong JSON type is refused by every model alike and is left out.        *)

\* Largest number of requests the product API serves in a run of the model.
MaxRequests == 3

\* str(uuid.uuid4()): the n-th value drawn; the values drawn are distinct.
Uuid(n) == "uuid-" \o ToString(n)

\* get_iso_now() when the clock reads t.
Iso(t) == PyStr("2025-09-23T14:30:0" \o ToString(t) \o "+00:00")

\* The fields a request body may give.
ProductFields == {"name", "price", "category", "stock_quantity"}

\* The constraints of ProductBase, field by field (a None fails each).
FieldAccepts(field, value) ==
    CASE field = "name" -> value.t = "str" /\ Len(value.v) >= 3
      [] field = "price" -> value.t = "int" /\ value.v > 0
      [] field = "category" -> value.t = "str"
      [] field = "stock_quantity" -> value.t = "int" /\ value.v >= 0

\* ProductCreate(**body) validates: the four fields are required.
ProductCreateAccepts(body) ==
    /\ DOMAIN body = ProductFields
    /\ \A field \in ProductFields : FieldAccepts(field, body[field])

\* The constraints of ProductUpdate, which declares each field anew as
\* Optional: name and category without constraint, price with gt=0,
\* stock_quantity with ge=0.
UpdateFieldAccepts(field, value) ==
    \/ value = PyNone
    \/ CASE field = "name" -> value.t = "str"
         [] field = "price" -> value.t = "int" /\ value.v > 0
         [] field = "category" -> value.t = "str"
         [] field = "stock_quantity" -> value.t = "int" /\ value.v >= 0

\* ProductUpdate(**body) validates: no field is required.
ProductUpdateAccepts(body) ==
    \A field \in DOMAIN body : UpdateFieldAccepts(field, body[field])

\* Faulty variant of ProductAccepts: the dict is stored as it is.
ProductAccepts_unchecked(item) ==
    DOMAIN item = ProductFields \cup {"id", "created_at", "updated_at"}

\* Product(**item) validates: id and the two timestamps are strings, the
\* rest obeys ProductBase.
ProductAccepts(item) ==
    /\ DOMAIN item = ProductFields \cup {"id", "created_at", "updated_at"}
    /\ \A field \in {"id", "created_at", "updated_at"} : item[field].t = "str"
    /\ \A field \in ProductFields : FieldAccepts(field, item[field])

\* Lines 82-87 and 171-176: Product(id=..., created_at=now_iso,
\* updated_at=now_iso, **product.model_dump()).
NewProduct(product_id, now_iso, dumped) ==
    [field \in ProductFields \cup {"id", "created_at", "updated_at"} |->
        CASE field = "id" -> PyStr(product_id)
          [] field \in {"created_at", "updated_at"} -> now_iso
          [] OTHER -> dumped[field]]

\* The ProductUpdate instance built from a body: every field has a value,
\* None by default, and the instance remembers which fields the body set.
ProductUpdate(body) ==
    [values |-> [field \in ProductFields |->
                    IF field \in DOMAIN body THEN body[field] ELSE PyNone],
     fields_set |-> DOMAIN body]

\* Line 123: product_update.model_dump(exclude_unset=True) has the fields
\* the body set, a field set to null included.
model_dump_exclude_unset(product_update) ==
    [field \in product_update.fields_set |-> product_update.values[field]]

\* Lines 126-127: updated_item = existing_data.copy(); update(update_data).
Merged(existing_data, update_data) ==
    [field \in DOMAIN existing_data \cup DOMAIN update_data |->
        IF field \in DOMAIN update_data THEN update_data[field]
        ELSE existing_data[field]]

\* Faulty variant of Restamp: created_at stamped as well.
Restamp_both(updated_item, now_iso) ==
    [field \in DOMAIN updated_item |->
        IF field \in {"created_at", "updated_at"} THEN now_iso
        ELSE updated_item[field]]

\* Line 130: updated_item['updated_at'] = get_iso_now()
Restamp(updated_item, now_iso) ==
    [field \in DOMAIN updated_item |->
        IF field = "updated_at" THEN now_iso ELSE updated_item[field]]

\* products_db[product_id] = product
Store(db, product_id, product) ==
    [k \in DOMAIN db \cup {product_id} |-> IF k = product_id THEN product ELSE db[k]]

\* del products_db[product_id]
Remove(db, product_id) == [k \in DOMAIN db \ {product_id} |-> db[k]]

EmptyDb == [k \in {} |-> PyNone]

\* Lines 163-167: products_to_add.
products_to_add ==
    << [name |-> PyStr("Jollof Rice"), price |-> PyInt(180),
        category |-> PyStr("Main Course"), stock_quantity |-> PyInt(50)],
       [name |-> PyStr("Mandazi"), price |-> PyInt(50),
        category |-> PyStr("Snack"), stock_quantity |-> PyInt(200)],
       [name |-> PyStr("Chapati"), price |-> PyInt(40),
        category |-> PyStr("Side Dish"), stock_quantity |-> PyInt(75)] >>

\* Lines 169-176: the loop of seed_data from the i-th product on, first
\* being the number of uuids drawn before the loop.
RECURSIVE Seeded(_, _, _, _)
Seeded(db, i, first, now_iso) ==
    IF i > Len(products_to_add) THEN db
    ELSE Seeded(Store(db, Uuid(first + i),
                      NewProduct(Uuid(first + i), now_iso, products_to_add[i])),
                i + 1, first, now_iso)

\* The values a request body gives a field; Unset is a field left out.
Unset == [t |-> "unset"]

NameValues == {Unset, PyNone, PyStr("ab"), PyStr("Ugali")}
PriceValues == {Unset, PyInt(0), PyInt(60)}
CategoryValues == {Unset, PyStr("Drinks")}
StockValues == {Unset, PyInt(0 - 1), PyInt(0)}

\* The request bodies: the JSON objects over these values in which at most
\* one field has a value ProductBase refuses.
Bodies ==
    LET all == [name : NameValues, price : PriceValues, category : CategoryValues,
                stock_quantity : StockValues]
        refused(c) == {f \in ProductFields : c[f] # Unset /\ ~FieldAccepts(f, c[f])}
    IN  { [field \in {f \in ProductFields : c[f] # Unset} |-> c[field]] :
            c \in {x \in all : Cardinality(refused(x)) <= 1} }

\* The product ids a request path names: those stored, and one that is not
\* (the handlers test "product_id not in products_db" and nothing else).
PathIds == DOMAIN products_db \cup {Uuid(0)}

\* What request records: the operation, its arguments and the status code
\* of the answer.
Served(op, product_id, body, status_code) ==
    [op |-> op, product_id |-> product_id, body |-> body, status_code |-> status_code]

NoBody == [field \in {} |-> PyNone]

-----------------------------------------------------------------------------
(* The state machine.                                                      *)

\* The client after construction, no call in progress.
ClientInit ==
    /\ pc = "idle"
    /\ mode = "none"
    /\ invoice_data = sample_invoice
    /\ max_retries = DefaultMaxRetries
    /\ attempt = 0
    /\ attempts = <<>>
    /\ heap = <<>>
    /\ returned = 0
    /\ posts = 0
    /\ sleeps = <<>>
    /\ clock = 0
    /\ wait_time = 0
    /\ calls = 0
    /\ transports = <<>>

\* Nobody holds a document to validate.
ValidatorInit ==
    /\ document = sample_invoice
    /\ verdicts = <<>>

\* Line 59: products_db = {} when the module is loaded.
ProductInit ==
    /\ products_db = EmptyDb
    /\ request = Served("none", "", NoBody, 0)
    /\ next_id = 0
    /\ utc_now = 0

Init == ClientInit /\ ValidatorInit /\ ProductInit

\* A caller runs submit_invoice(doc) to its end, doc being one of docs.
SubmitInvoiceOf(docs) ==
    /\ pc = "idle"
    /\ \E doc \in docs :
       \E transport \in TransportsFor(doc) :
          LET r == submit_invoice(doc, transport, 0)
          IN  /\ invoice_data' = doc
              /\ pc' = IF r.raised THEN "raised" ELSE "returned"
              /\ heap' = IF r.raised THEN <<>> ELSE <<r.outcome>>
              /\ returned' = IF r.raised THEN 0 ELSE 1
              /\ posts' = IF ReachesPost(doc) THEN 1 ELSE 0
              /\ transports' = IF ReachesPost(doc) THEN <<transport>> ELSE <<>>
    /\ mode' = "single"
    /\ attempt' = 0
    /\ attempts' = <<>>
    /\ sleeps' = <<>>
    /\ clock' = 0
    /\ wait_time' = 0
    /\ calls' = 1
    /\ UNCHANGED <<max_retries, validator_vars, product_vars>>

SubmitInvoice == SubmitInvoiceOf(Invoices)

\* A caller enters submit_invoice_with_retry(doc, retries), doc being one of
\* docs: lines 202-205.
StartRetryOf(docs) ==
    /\ pc = "idle"
    /\ \E doc \in docs, retries \in RetryArguments :
          /\ invoice_data' = doc
          /\ max_retries' = retries
    /\ mode' = "retry"
    /\ pc' = "for"
    /\ attempt' = 0
    /\ attempts' = <<>>
    /\ heap' = <<>>
    /\ returned' = 0
    /\ posts' = 0
    /\ sleeps' = <<>>
    /\ clock' = 0
    /\ wait_time' = 0
    /\ calls' = 0
    /\ transports' = <<>>
    /\ UNCHANGED <<validator_vars, product_vars>>

StartRetry == StartRetryOf(Invoices)

\* One pass through the loop body, lines 208-229, up to the sleep.
Attempt ==
    /\ pc = "for"
    /\ attempt < max_retries
    /\ \E transport \in TransportsFor(invoice_data) :
          LET r == submit_invoice(invoice_data, transport, clock)
              address == Len(heap) + 1
              result == SetItem(r.outcome, "attempt_number", attempt + 1)
              all == Append(attempts, address)
          IN  /\ posts' = IF ReachesPost(invoice_data) THEN posts + 1 ELSE posts
              /\ transports' = IF ReachesPost(invoice_data)
                                THEN Append(transports, transport) ELSE transports
              /\ IF r.raised
                 THEN /\ pc' = "raised"
                      /\ UNCHANGED <<attempt, attempts, heap, returned, wait_time>>
                 ELSE IF ReturnsResult(result)
                 THEN /\ pc' = "returned"
                      /\ attempts' = all
                      /\ heap' = Append(heap, WithHistory(result, attempt, all))
                      /\ returned' = address
                      /\ UNCHANGED <<attempt, wait_time>>
                 ELSE IF SleepsAfter(attempt, max_retries)
                 THEN /\ pc' = "sleeping"
                      /\ attempts' = all
                      /\ heap' = Append(heap, result)
                      /\ wait_time' = BackoffDelay(attempt)
                      /\ UNCHANGED <<attempt, returned>>
                 ELSE /\ pc' = "for"
                      /\ attempts' = all
                      /\ heap' = Append(heap, result)
                      /\ attempt' = attempt + 1
                      /\ UNCHANGED <<returned, wait_time>>
    /\ calls' = calls + 1
    /\ UNCHANGED <<mode, invoice_data, max_retries, sleeps, clock>>
    /\ UNCHANGED <<validator_vars, product_vars>>

\* Line 231: time.sleep(wait_time) returns and the loop goes on.
Sleep ==
    /\ pc = "sleeping"
    /\ sleeps' = Append(sleeps, wait_time)
    /\ clock' = clock + wait_time
    /\ attempt' = attempt + 1
    /\ pc' = "for"
    /\ UNCHANGED <<mode, invoice_data, max_retries, attempts, heap, returned, posts,
                   wait_time, calls, transports>>
    /\ UNCHANGED <<validator_vars, product_vars>>

\* Lines 233-241: range(max_retries) is used up.
Exhaust ==
    /\ pc = "for"
    /\ attempt >= max_retries
    /\ heap' = Append(heap, ExhaustedOutcome(max_retries, attempts))
    /\ returned' = Len(heap) + 1
    /\ pc' = "returned"
    /\ UNCHANGED <<mode, invoice_data, max_retries, attempt, attempts, posts, sleeps,
                   clock, wait_time, calls, transports>>
    /\ UNCHANGED <<validator_vars, product_vars>>

\* The caller has the outcome (or the exception); the client is idle again.
Finish ==
    /\ pc \in {"returned", "raised"}
    /\ pc' = "idle"
    /\ mode' = "none"
    /\ invoice_data' = sample_invoice
    /\ max_retries' = DefaultMaxRetries
    /\ attempt' = 0
    /\ attempts' = <<>>
    /\ heap' = <<>>
    /\ returned' = 0
    /\ posts' = 0
    /\ sleeps' = <<>>
    /\ clock' = 0
    /\ wait_time' = 0
    /\ calls' = 0
    /\ transports' = <<>>
    /\ UNCHANGED <<validator_vars, product_vars>>

Next ==
    \/ SubmitInvoice
    \/ StartRetry
    \/ Attempt
    \/ Sleep
    \/ Exhaust
    \/ Finish

Spec == Init /\ [][Next]_vars

\* Attempts, sleeps and the loop's exit are steps of one blocking call: a
\* request ends within its timeout (line 110), time.sleep returns, and the
\* interpreter goes on.  Callers owe the client nothing.
FairSpec ==
    /\ Spec
    /\ WF_vars(Attempt)
    /\ WF_vars(Sleep)
    /\ WF_vars(Exhaust)

-----------------------------------------------------------------------------
(* A caller of validate_invoice_schema.                                    *)

\* Largest number of validate_invoice_schema calls on the held document.
MaxValidations == 2

\* Faulty variant of DocumentAfterValidation: a validator that consumes the
\* summary it has checked.
DocumentAfterValidation_popping(doc) ==
    IF validate_invoice_schema(doc) = ValidationPassed
    THEN PyDict([k \in DOMAIN doc.v \ {"summary"} |-> doc.v[k]])
    ELSE doc

\* The document object once validate_invoice_schema(doc) has ended: lines
\* 42-88 assign to no key of invoice_data nor of its components, they only
\* test membership, read and iterate.
DocumentAfterValidation(doc) == doc

\* The caller holds a document, whatever it held before.
HoldDocument ==
    /\ pc = "idle"
    /\ verdicts = <<>>
    /\ document = sample_invoice
    /\ \E doc \in Invoices \ {sample_invoice} : document' = doc
    /\ UNCHANGED <<verdicts, client_vars, product_vars>>

\* The caller runs validate_invoice_schema(document) to its end, between
\* two operations of the client or while a retrying call sleeps.
ValidateDocument ==
    /\ pc \in {"idle", "sleeping"}
    /\ Len(verdicts) < MaxValidations
    /\ verdicts' = Append(verdicts, [verdict |-> validate_invoice_schema(document),
                                      during |-> pc])
    /\ document' = DocumentAfterValidation(document)
    /\ UNCHANGED <<client_vars, product_vars>>

\* The client is driven with the held document between the validations.
ValidatorNext ==
    \/ HoldDocument
    \/ ValidateDocument
    \/ SubmitInvoiceOf({document})
    \/ StartRetryOf({document})
    \/ Attempt
    \/ Sleep
    \/ Exhaust
    \/ Finish

ValidatorSpec == Init /\ [][ValidatorNext]_vars

-----------------------------------------------------------------------------
(* The product API: one action per endpoint that writes products_db.  The  *)
(* handlers are coroutines without an await, so each runs to its end.      *)

\* POST /products, lines 74-89.  A body ProductCreate refuses is answered
\* 422 before the handler runs.
create_product ==
    /\ utc_now < MaxRequests
    /\ \E body \in Bodies :
          IF ~ProductCreateAccepts(body)
          THEN /\ request' = Served("create", "", body, 422)
               /\ UNCHANGED <<products_db, next_id>>
          ELSE LET product_id == Uuid(next_id + 1)
                   new_product == NewProduct(product_id, Iso(utc_now), body)
               IN  /\ products_db' = Store(products_db, product_id, new_product)
                   /\ next_id' = next_id + 1
                   /\ request' = Served("create", product_id, body, 201)
    /\ utc_now' = utc_now + 1
    /\ UNCHANGED <<client_vars, validator_vars>>

\* PUT /products/{product_id}, lines 113-133.  A body ProductUpdate refuses
\* is answered 422 before the handler runs; a ValidationError raised by
\* Product(**updated_item) leaves the handler and is answered 500.
update_product ==
    /\ utc_now < MaxRequests
    /\ \E product_id \in PathIds, body \in Bodies :
          IF ~ProductUpdateAccepts(body)
          THEN /\ request' = Served("update", product_id, body, 422)
               /\ UNCHANGED products_db
          ELSE IF product_id \notin DOMAIN products_db
          THEN /\ request' = Served("update", product_id, body, 404)
               /\ UNCHANGED products_db
          ELSE LET existing_data == products_db[product_id]
                   update_data == model_dump_exclude_unset(ProductUpdate(body))
                   updated_item == Restamp(Merged(existing_data, update_data),
                                           Iso(utc_now))
               IN  IF ~ProductAccepts(updated_item)
                   THEN /\ request' = Served("update", product_id, body, 500)
                        /\ UNCHANGED products_db
                   ELSE /\ products_db' = Store(products_db, product_id, updated_item)
                        /\ request' = Served("update", product_id, body, 200)
    /\ utc_now' = utc_now + 1
    /\ UNCHANGED <<next_id, client_vars, validator_vars>>

\* DELETE /products/{product_id}, lines 135-144.
delete_product ==
    /\ utc_now < MaxRequests
    /\ \E product_id \in PathIds :
          IF product_id \notin DOMAIN products_db
          THEN /\ request' = Served("delete", product_id, NoBody, 404)
               /\ UNCHANGED products_db
          ELSE /\ products_db' = Remove(products_db, product_id)
               /\ request' = Served("delete", product_id, NoBody, 204)
    /\ utc_now' = utc_now + 1
    /\ UNCHANGED <<next_id, client_vars, validator_vars>>

\* POST /seed-data, lines 155-178.
seed_data ==
    /\ utc_now < MaxRequests
    /\ products_db' = Seeded(EmptyDb, 1, next_id, Iso(utc_now))
    /\ next_id' = next_id + Len(products_to_add)
    /\ request' = Served("seed", "", NoBody, 201)
    /\ utc_now' = utc_now + 1
    /\ UNCHANGED <<client_vars, validator_vars>>

ProductNext ==
    \/ create_product
    \/ update_product
    \/ delete_product
    \/ seed_data

ProductSpec == Init /\ [][ProductNext]_vars

-----------------------------------------------------------------------------
(* Vocabulary of the properties.                                           *)

\* The call has ended by returning a dict.
Returned == pc = "returned"

\* The dict handed to the caller (where Returned).
Outcome == heap[returned]

\* The dict of the n-th attempt of a retrying call.
AttemptOutcome(n) == heap[attempts[n]]

NonRetryableTags == {"invalid_schema", "validation_error", "invalid_json"}

IsNonRetryableFailure(o) == ~o.success /\ o.error \in NonRetryableTags

IsRetryableFailure(o) == ~o.success /\ o.error \notin NonRetryableTags

IsFailedWith(o, tag) == o.success = FALSE /\ o.status = "failed" /\ o.error = tag

\* x is a JSON object / a sequence, and has the member.
HasMember(x, key) == x.t = "dict" /\ key \in DOMAIN x.v

\* The document lacks something the schema requires, read off the document
\* itself: a top-level field, business_info.tin, business_info.business_name,
\* a field of some item, a field of summary; or its items sequence is empty.
LacksRequired(doc) ==
    \/ \E f \in {"invoice_id", "business_info", "transaction_date", "items", "summary"} :
          f \notin DOMAIN doc.v
    \/ /\ "business_info" \in DOMAIN doc.v
       /\ \/ ~HasMember(doc.v["business_info"], "tin")
          \/ ~HasMember(doc.v["business_info"], "business_name")
    \/ /\ "items" \in DOMAIN doc.v
       /\ doc.v["items"].t = "list"
       /\ \/ doc.v["items"].v = <<>>
          \/ \E i \in 1..Len(doc.v["items"].v) :
                \E f \in {"description", "quantity", "unit_price", "tax_rate"} :
                   ~HasMember(doc.v["items"].v[i], f)
    \/ /\ "summary" \in DOMAIN doc.v
       /\ \E f \in {"subtotal", "tax_amount", "total_amount", "currency"} :
             ~HasMember(doc.v["summary"], f)

\* Every component of the document that is present has the type the data
\* model gives it: objects for business_info, summary and the items, a
\* sequence for items.
WellTyped(doc) ==
    /\ "business_info" \in DOMAIN doc.v => doc.v["business_info"].t = "dict"
    /\ "summary" \in DOMAIN doc.v => doc.v["summary"].t = "dict"
    /\ "items" \in DOMAIN doc.v =>
          /\ doc.v["items"].t = "list"
          /\ \A i \in 1..Len(doc.v["items"].v) : doc.v["items"].v[i].t = "dict"

\* The response declares a JSON content type: its content-type header names
\* the media type application/json, in any letter case and with or without
\* parameters.
DeclaresJson(response) ==
    /\ "content-type" \in DOMAIN response.headers
    /\ response.headers["content-type"]
          \in {"application/json", "application/json; charset=utf-8", "Application/JSON"}

\* The content-type header begins with the characters application/json.
HasJsonPrefix(response) ==
    /\ "content-type" \in DOMAIN response.headers
    /\ Len(response.headers["content-type"]) >= 16
    /\ SubSeq(response.headers["content-type"], 1, 16) = "application/json"

\* The error tag of an attempt as a function of what the transport did, with
\* "" standing for success.  With literal = FALSE a response counts as JSON
\* when it declares JSON, and status 200 and 400 give success and
\* validation_error for every parsed body.  With literal = TRUE a response
\* counts as JSON when its content-type header begins with application/json,
\* and status 200 and 400 give success and validation_error for a parsed
\* body that is a JSON object, any other parsed body giving unexpected_error.
TagOf(transport, literal) ==
    CASE transport.kind = "Timeout" -> "timeout"
      [] transport.kind = "ConnectionError" -> "connection_error"
      [] transport.kind = "Exception" -> "unexpected_error"
      [] transport.kind = "Response" ->
            IF ~(IF literal THEN HasJsonPrefix(transport) ELSE DeclaresJson(transport))
            THEN "invalid_response"
            ELSE IF ~transport.body.parses THEN "invalid_json"
            ELSE IF transport.status_code \in {200, 400}
                    /\ literal /\ transport.body.value.t # "dict"
                 THEN "unexpected_error"
            ELSE IF transport.status_code = 200 THEN ""
            ELSE IF transport.status_code = 400 THEN "validation_error"
            ELSE "http_error_" \o ToString(transport.status_code)

\* The outcome o is what TagOf says of the transport.
Agrees(o, transport, literal) ==
    IF TagOf(transport, literal) = ""
    THEN o.success = TRUE
    ELSE IsFailedWith(o, TagOf(transport, literal))

\* The error tag has the form http_error_<code>.
IsHttpError(o) ==
    /\ o.success = FALSE
    /\ Len(o.error) > 11
    /\ SubSeq(o.error, 1, 11) = "http_error_"

\* The transport answered with a status code in the 2xx range.
Is2xx(transport) ==
    transport.kind = "Response" /\ transport.status_code \in 200..299

\* An outcome has an error member exactly when it is a failure.
ErrorIffFailure(o) ==
    /\ ("error" \in DOMAIN o) <=> (o.success = FALSE)
    /\ o.success = FALSE => o.error # ""

\* The states of the retry sequence a call returns from: succeeded, and
\* exhausted, which is reached by a non-retryable failure of the last
\* attempt made or by using up the attempts.
Succeeded == Outcome.success = TRUE

Exhausted ==
    /\ Outcome.success = FALSE
    /\ \/ Outcome.error = "all_retries_failed" /\ attempt >= max_retries
       \/ Outcome.error \in NonRetryableTags /\ returned = attempts[Len(attempts)]

\* A retry sequence has started and has not ended.
Attempting == mode = "retry" /\ pc \in {"for", "sleeping"}

\* The members of x, x being an object of the data model; anything else has
\* none.
Has(x, key) == x.t = "dict" /\ key \in DOMAIN x.v

\* The member is missing or empty.
MissingOrEmpty(x, key) == ~Has(x, key) \/ ~Truthy(x.v[key])

\* The items of the document: the elements of the sequence, none if items
\* is no sequence.
ItemsOf(doc) == IF doc.v["items"].t = "list" THEN doc.v["items"].v ELSE <<>>

\* The first of the fields, in their order, for which missing(field) holds.
FirstOf(fields, missing(_)) ==
    fields[CHOOSE j \in 1..Len(fields) :
              missing(fields[j]) /\ \A k \in 1..(j - 1) : ~missing(fields[k])]

\* The lowest index of an item that lacks a required item field.
FirstShortItem(items) ==
    CHOOSE i \in 1..Len(items) :
        /\ \E f \in {"description", "quantity", "unit_price", "tax_rate"} : ~Has(items[i], f)
        /\ \A k \in 1..(i - 1) :
              \A f \in {"description", "quantity", "unit_price", "tax_rate"} : Has(items[k], f)

\* The verdict the six checks give, read off the document: valid, or not
\* valid with the message of the first check that fails.
FirstFailingCheck(doc) ==
    LET top == <<"invoice_id", "business_info", "transaction_date", "items", "summary">>
        item == <<"description", "quantity", "unit_price", "tax_rate">>
        sum == <<"subtotal", "tax_amount", "total_amount", "currency">>
        absent(f) == f \notin DOMAIN doc.v
        notInSummary(f) == ~Has(doc.v["summary"], f)
    IN  IF \E f \in DOMAIN doc.v \cup {"invoice_id", "business_info", "transaction_date",
                                       "items", "summary"} : absent(f)
        THEN [valid |-> FALSE,
              message |-> "Missing required field: " \o FirstOf(top, absent)]
        ELSE IF MissingOrEmpty(doc.v["business_info"], "tin")
        THEN [valid |-> FALSE, message |-> "Missing TIN in business_info"]
        ELSE IF MissingOrEmpty(doc.v["business_info"], "business_name")
        THEN [valid |-> FALSE, message |-> "Missing business_name in business_info"]
        ELSE IF ItemsOf(doc) = <<>>
        THEN [valid |-> FALSE, message |-> "Invoice must contain at least one item"]
        ELSE IF \E i \in 1..Len(ItemsOf(doc)) : \E f \in {"description", "quantity",
                                                          "unit_price", "tax_rate"} :
                   ~Has(ItemsOf(doc)[i], f)
        THEN LET i == FirstShortItem(ItemsOf(doc))
                 lacks(f) == ~Has(ItemsOf(doc)[i], f)
             IN  [valid |-> FALSE,
                  message |-> "Item " \o ToString(i - 1) \o " missing required field: "
                              \o FirstOf(item, lacks)]
        ELSE IF \E f \in {"subtotal", "tax_amount", "total_amount", "currency"} :
                   notInSummary(f)
        THEN [valid |-> FALSE,
              message |-> "Summary missing required field: " \o FirstOf(sum, notInSummary)]
        ELSE [valid |-> TRUE, message |-> "Validation successful"]

\* A call of validate_invoice_schema returned this (valid, message) pair.
ReturnedPair(v, pair) ==
    v.verdict.raised = FALSE /\ v.verdict.valid = pair.valid
        /\ v.verdict.message = pair.message

\* 2 to the power k, by repeated doubling.
RECURSIVE Doubled(_)
Doubled(k) == IF k <= 0 THEN 1 ELSE 2 * Doubled(k - 1)

RECURSIVE Sum(_)
Sum(seq) == IF seq = <<>> THEN 0 ELSE Head(seq) + Sum(Tail(seq))

-----------------------------------------------------------------------------
(* Properties of the submission client.                                    *)

\* C1: a call of submit_invoice, or of submit_invoice_with_retry with
\* max_retries >= 1, on a document that lacks a required top-level field,
\* business_info.tin, business_info.business_name, a required item field or
\* a required summary field, or whose items sequence is empty, issues no
\* HTTP POST and ends by returning success = false, status = failed,
\* error = invalid_schema.
C1_InvalidNeverSent ==
    (mode # "none" /\ (mode = "retry" => max_retries >= 1)
       /\ LacksRequired(invoice_data)) =>
        /\ posts = 0
        /\ pc # "raised"
        /\ Returned => IsFailedWith(Outcome, "invalid_schema")

\* C1, for documents whose components have the types of the data model: the
\* same statement holds of them.
C1_WellTypedInvalidNeverSent ==
    (mode # "none" /\ (mode = "retry" => max_retries >= 1)
       /\ WellTyped(invoice_data) /\ LacksRequired(invoice_data)) =>
        /\ posts = 0
        /\ pc # "raised"
        /\ Returned => IsFailedWith(Outcome, "invalid_schema")

\* C2: in submit_invoice_with_retry, an attempt n that fails with
\* invalid_schema, validation_error or invalid_json is the last one: the call
\* has returned at once, no attempt and no backoff delay follows it, the
\* returned outcome carries that attempt's error tag and total_attempts = n.
C2_NonRetryableStopsAtOnce ==
    mode = "retry" =>
        \A n \in 1..Len(attempts) :
            IsNonRetryableFailure(AttemptOutcome(n)) =>
                /\ n = Len(attempts)
                /\ calls = n
                /\ Returned
                /\ pc # "sleeping"
                /\ Len(sleeps) = n - 1
                /\ IsFailedWith(Outcome, AttemptOutcome(n).error)
                /\ Outcome.total_attempts = n

\* A second attempt of three allowed ends the call with validation_error.
C2_Witness ==
    /\ mode = "retry"
    /\ Returned
    /\ max_retries = 3
    /\ Len(attempts) = 2
    /\ IsFailedWith(AttemptOutcome(2), "validation_error")

\* C3: for max_retries >= 1, submit_invoice_with_retry returns
\* error = all_retries_failed exactly when max_retries attempts were made and
\* each failed with a retryable error; that outcome has success = false,
\* total_attempts = max_retries, and every entry of all_attempts carries the
\* error tag its own attempt ended with.
C3_AllRetriesFailedExactly ==
    (mode = "retry" /\ Returned /\ max_retries >= 1) =>
        /\ (~Outcome.success /\ Outcome.error = "all_retries_failed")
             <=> (/\ calls = max_retries
                  /\ Len(attempts) = max_retries
                  /\ \A i \in 1..Len(attempts) : IsRetryableFailure(AttemptOutcome(i)))
        /\ (~Outcome.success /\ Outcome.error = "all_retries_failed") =>
              /\ Outcome.status = "failed"
              /\ Outcome.total_attempts = max_retries
              /\ Len(Outcome.all_attempts) = max_retries
              /\ Len(transports) = max_retries
              /\ \A i \in 1..max_retries :
                    IsFailedWith(heap[Outcome.all_attempts[i]], TagOf(transports[i], TRUE))

\* Three timeouts: all_retries_failed, with three entries tagged timeout.
C3_Witness ==
    /\ mode = "retry"
    /\ Returned
    /\ max_retries = 3
    /\ transports = <<RaisesTimeout, RaisesTimeout, RaisesTimeout>>
    /\ IsFailedWith(Outcome, "all_retries_failed")
    /\ Outcome.total_attempts = 3
    /\ Len(Outcome.all_attempts) = 3
    /\ \A i \in 1..3 : heap[Outcome.all_attempts[i]].error = "timeout"

\* C4: in submit_invoice_with_retry the i-th sleep lasts 2^(i-1) seconds and
\* follows the i-th attempt, which failed with a retryable error and was not
\* the last one allowed; attempt n+1 starts only after n sleeps; and no
\* sleep comes before the first attempt, after the last allowed one, after a
\* success or after a non-retryable failure.
C4_BackoffSchedule ==
    mode = "retry" =>
        /\ \A i \in 1..Len(sleeps) :
              /\ sleeps[i] = Doubled(i - 1)
              /\ i < max_retries
              /\ i <= Len(attempts)
              /\ IsRetryableFailure(AttemptOutcome(i))
        /\ Len(attempts) <= Len(sleeps) + 1
        /\ (pc = "for" /\ attempt < max_retries) => Len(sleeps) = Len(attempts)
        /\ (pc = "sleeping") => Len(sleeps) = Len(attempts) - 1
        /\ (Returned /\ Len(attempts) >= 1) => Len(sleeps) = Len(attempts) - 1
        /\ (Returned /\ Len(attempts) = 0) => sleeps = <<>>
        /\ clock = Sum(sleeps)

\* max_retries = 3 with persistent timeouts: sleeps of 1 then 2, no more.
C4_Witness ==
    /\ mode = "retry"
    /\ Returned
    /\ max_retries = 3
    /\ transports = <<RaisesTimeout, RaisesTimeout, RaisesTimeout>>
    /\ sleeps = <<1, 2>>
    /\ clock = 3

\* C5: submit_invoice_with_retry makes at most max_retries attempts (none
\* when max_retries is negative), and none after a successful one: if
\* attempt n succeeds the call has returned that attempt's outcome with
\* total_attempts = n, and every earlier entry of all_attempts is a failure
\* with a retryable error.
C5_BoundedAndStopsOnSuccess ==
    mode = "retry" =>
        /\ calls <= (IF max_retries > 0 THEN max_retries ELSE 0)
        /\ posts <= calls
        /\ Len(attempts) <= calls
        /\ \A n \in 1..Len(attempts) :
              AttemptOutcome(n).success =>
                 /\ n = Len(attempts)
                 /\ calls = n
                 /\ Returned
                 /\ returned = attempts[n]
                 /\ Outcome.total_attempts = n
                 /\ Len(Outcome.all_attempts) = n
                 /\ \A i \in 1..(n - 1) :
                       IsRetryableFailure(heap[Outcome.all_attempts[i]])

\* Two retryable failures, then success on the third and last attempt.
C5_Witness ==
    /\ mode = "retry"
    /\ Returned
    /\ max_retries = 3
    /\ Len(attempts) = 3
    /\ Outcome.success
    /\ ~AttemptOutcome(1).success
    /\ ~AttemptOutcome(2).success

C7_HistoryIsFaithful ==
    (mode = "retry" /\ Returned /\ max_retries >= 1) =>
        /\ Outcome.total_attempts = calls
        /\ Len(Outcome.all_attempts) = calls
        /\ \A i \in 1..Len(Outcome.all_attempts) :
              /\ Outcome.all_attempts[i] = i
              /\ heap[Outcome.all_attempts[i]].attempt_number = i
              /\ Len(transports) >= i
                    => Agrees(heap[Outcome.all_attempts[i]], transports[i], TRUE)

\* Timeout, connection error, then a rejection: three entries numbered 1..3.
C7_Witness ==
    /\ mode = "retry"
    /\ Returned
    /\ max_retries = 3
    /\ Len(transports) = 3
    /\ transports[1] = RaisesTimeout
    /\ transports[2] = RaisesConnectionError
    /\ transports[3] = Response(400, ContentType("application/json"), ErrorObject)
    /\ Outcome.total_attempts = 3
    /\ Outcome.all_attempts = <<1, 2, 3>>

\* C8: whatever the document and the transport, submit_invoice and
\* submit_invoice_with_retry end by returning an outcome record; no
\* exception reaches the caller.
C8_AlwaysAnOutcome ==
    /\ pc # "raised"
    /\ Returned => (returned \in 1..Len(heap) /\ "success" \in DOMAIN Outcome)

\* C9 as stated: for a document that passes validation, the outcome of
\* submit_invoice is this function of what the transport did: timeout ->
\* timeout; connection failure -> connection_error; content type not JSON ->
\* invalid_response whatever the status; JSON content type with an
\* unparsable body -> invalid_json; parsed JSON with status 200 -> success,
\* with status 400 -> validation_error, with any other status ->
\* http_error_<status>; any other failure -> unexpected_error; and every
\* failure has success = false and status = failed.
C9_ClassificationAsStated ==
    /\ (mode = "single" /\ Returned /\ posts = 1) => Agrees(Outcome, transports[1], FALSE)
    /\ mode = "retry" =>
          \A i \in 1..Len(attempts) :
              Len(transports) >= i => Agrees(AttemptOutcome(i), transports[i], FALSE)

\* C9 amended: the same function, except that a response counts as JSON
\* exactly when its content-type header begins with application/json, and
\* that status 200 gives success and status 400 gives validation_error only
\* when the parsed body is a JSON object; a parsed body that is no object
\* gives unexpected_error there.
C9_ClassificationOfObjects ==
    /\ (mode = "single" /\ Returned /\ posts = 1) => Agrees(Outcome, transports[1], TRUE)
    /\ mode = "retry" =>
          \A i \in 1..Len(attempts) :
              Len(transports) >= i => Agrees(AttemptOutcome(i), transports[i], TRUE)

\* A 200 response whose JSON body is an array ends as unexpected_error.
C9_Witness ==
    /\ mode = "single"
    /\ Returned
    /\ transports = <<Response(200, ContentType("application/json"), EmptyArray)>>
    /\ IsFailedWith(Outcome, "unexpected_error")

\* C10: the status of every returned outcome is one of success, failed,
\* pending, under_review.
C10_StatusInEnum ==
    Returned => Outcome.status \in {"success", "failed", "pending", "under_review"}

\* C11: every outcome submit_invoice_with_retry returns, by success, by a
\* non-retryable failure or by exhausting the attempts, has the members
\* attempt_number, total_attempts and all_attempts, and is the outcome of
\* the last attempt made with the history added: at least one attempt was
\* made and every member of the last attempt's outcome is in it unchanged.
C11_FinalAttemptWithHistory ==
    (mode = "retry" /\ Returned) =>
        /\ {"attempt_number", "total_attempts", "all_attempts"} \subseteq DOMAIN Outcome
        /\ Len(attempts) >= 1
        /\ \A k \in DOMAIN AttemptOutcome(Len(attempts)) :
              /\ k \in DOMAIN Outcome
              /\ Outcome[k] = AttemptOutcome(Len(attempts))[k]

\* C12: an outcome of submit_invoice has an error tag of the form
\* http_error_<code> only when the transport answered with a status code
\* outside 200..299.
C12_HttpErrorOnlyOutside2xx ==
    /\ (mode = "single" /\ Returned /\ posts = 1) =>
          (IsHttpError(Outcome) => ~Is2xx(transports[1]))
    /\ mode = "retry" =>
          \A i \in 1..Len(attempts) :
              (Len(transports) >= i /\ IsHttpError(AttemptOutcome(i)))
                  => ~Is2xx(transports[i])

\* C13: every outcome dict the client has built, returned or kept in the
\* history, has an error member exactly when its success member is false,
\* and the tag of a failure is not empty.
C13_ErrorIffFailure ==
    /\ \A a \in 1..Len(heap) : ErrorIffFailure(heap[a])
    /\ Returned => ErrorIffFailure(Outcome)
    /\ (mode = "retry" /\ Returned) =>
          \A i \in 1..Len(Outcome.all_attempts) :
              ErrorIffFailure(heap[Outcome.all_attempts[i]])

\* A retrying call returns a success whose history holds a failure before it.
C13_Witness ==
    /\ mode = "retry"
    /\ Returned
    /\ Len(attempts) = 2
    /\ AttemptOutcome(1).success = FALSE
    /\ "error" \in DOMAIN AttemptOutcome(1)
    /\ Outcome.success = TRUE
    /\ "error" \notin DOMAIN Outcome
    /\ "error" \notin DOMAIN heap[Outcome.all_attempts[2]]

\* C18: for every max_retries, zero and negative ones included, the outcome
\* submit_invoice_with_retry returns has total_attempts equal to the number
\* of submit_invoice calls made, which is the length of all_attempts.
C18_TotalAttemptsIsCount ==
    (mode = "retry" /\ Returned) =>
        /\ Outcome.total_attempts = calls
        /\ Outcome.total_attempts = Len(Outcome.all_attempts)

\* C19: in every outcome submit_invoice_with_retry returns, each entry of
\* all_attempts has attempt_number and neither total_attempts nor
\* all_attempts, and none is the returned outcome itself.
C19_HistoryIsPlain ==
    (mode = "retry" /\ Returned) =>
        \A i \in 1..Len(Outcome.all_attempts) :
            /\ Outcome.all_attempts[i] # returned
            /\ "attempt_number" \in DOMAIN heap[Outcome.all_attempts[i]]
            /\ "total_attempts" \notin DOMAIN heap[Outcome.all_attempts[i]]
            /\ "all_attempts" \notin DOMAIN heap[Outcome.all_attempts[i]]

\* C14: validate_invoice_schema returns valid = true exactly when the six
\* checks pass, and otherwise valid = false with the message of the first
\* check that fails, in the order: top-level key (invoice_id, business_info,
\* transaction_date, items, summary), business_info.tin, business_info
\* .business_name, items empty, item field (lowest index first, then
\* description, quantity, unit_price, tax_rate), summary field (subtotal,
\* tax_amount, total_amount, currency).
C14_FirstFailingCheckReported ==
    \A i \in 1..Len(verdicts) : ReturnedPair(verdicts[i], FirstFailingCheck(document))

\* C14 for documents whose components have the types of the data model: the
\* same statement holds of them.
C14_WellTypedFirstFailingCheck ==
    WellTyped(document) =>
        \A i \in 1..Len(verdicts) : ReturnedPair(verdicts[i], FirstFailingCheck(document))

C16_RunsToSucceededOrExhausted ==
    /\ [](mode = "retry" /\ Returned => Succeeded \/ Exhausted)
    /\ Attempting ~> (mode = "retry" /\ Returned)

\* C16, an exception counted as an end of the call: a started
\* submit_invoice_with_retry eventually returns or raises.
C16_RunsToAnEnd ==
    /\ [](mode = "retry" /\ Returned => Succeeded \/ Exhausted)
    /\ Attempting ~> (mode = "retry" /\ (Returned \/ pc = "raised"))

-----------------------------------------------------------------------------
(* Properties of the product API.                                          *)

\* C17: a step of update_product on a product id that is stored changes, of
\* products_db, at most the fields of that product the request body gives
\* and its updated_at: its id, its created_at, every field the body does not
\* give and every other entry stay as they were, and no entry is added or
\* removed.  On an id that is not stored the answer is 404 (422 if the body
\* itself is refused) and products_db stays as it was.
C17_UpdateFrame ==
    [][request'.op = "update" =>
          IF request'.product_id \in DOMAIN products_db
          THEN /\ DOMAIN products_db' = DOMAIN products_db
               /\ \A k \in DOMAIN products_db \ {request'.product_id} :
                     products_db'[k] = products_db[k]
               /\ \A field \in ProductFields \cup {"id", "created_at", "updated_at"} :
                     products_db'[request'.product_id][field]
                           # products_db[request'.product_id][field]
                        => field \in DOMAIN request'.body \cup {"updated_at"}
               /\ products_db'[request'.product_id]["id"]
                     = products_db[request'.product_id]["id"]
               /\ products_db'[request'.product_id]["created_at"]
                     = products_db[request'.product_id]["created_at"]
          ELSE /\ products_db' = products_db
               /\ request'.status_code \in {404, 422}
               /\ ProductUpdateAccepts(request'.body) => request'.status_code = 404
      ]_vars

\* After seed_data, an update that gives price alone has changed the price
\* and updated_at of one product of three and nothing else of it.
C17_Witness ==
    /\ request.op = "update"
    /\ request.status_code = 200
    /\ DOMAIN request.body = {"price"}
    /\ Cardinality(DOMAIN products_db) = 3
    /\ products_db[request.product_id]["price"] = PyInt(60)
    /\ products_db[request.product_id]["name"] = PyStr("Mandazi")
    /\ products_db[request.product_id]["stock_quantity"] = PyInt(200)
    /\ products_db[request.product_id]["created_at"] = Iso(0)
    /\ products_db[request.product_id]["updated_at"] = Iso(1)
    /\ \E k \in DOMAIN products_db : products_db[k]["updated_at"] = Iso(0)

\* C20: after any sequence of create_product, update_product,
\* delete_product and seed_data requests, refused ones included, every
\* entry of products_db is stored under its own id, has a name of at least 3
\* characters, a price > 0 and a stock_quantity >= 0.
C20_TableKeepsConstraints ==
    \A k \in DOMAIN products_db :
        /\ products_db[k]["id"] = PyStr(k)
        /\ products_db[k]["name"].t = "str"
        /\ Len(products_db[k]["name"].v) >= 3
        /\ products_db[k]["price"].t = "int"
        /\ products_db[k]["price"].v > 0
        /\ products_db[k]["stock_quantity"].t = "int"
        /\ products_db[k]["stock_quantity"].v >= 0

\* An update that gives a name of two characters to a created product was
\* answered 500 and the product still has its name.
C20_Witness ==
    /\ request.op = "update"
    /\ request.status_code = 500
    /\ "name" \in DOMAIN request.body
    /\ request.body["name"] = PyStr("ab")
    /\ request.product_id \in DOMAIN products_db
    /\ products_db[request.product_id]["name"] = PyStr("Ugali")
    /\ products_db[request.product_id]["updated_at"]
          = products_db[request.product_id]["created_at"]

====
